---- MODULE Spec2Model ----
(***************************************************************************)
(* The NoncedleGame component (src/src/components/NoncedleGame.tsx) as a   *)
(* state machine.  A state is one committed render of the component: the   *)
(* useState cells, the localStorage records, the state updates queued by   *)
(* the effects of the last commit, the makeGuess chains started by the     *)
(* auto-guess effect and the manual digests still in flight.  An action    *)
(* is one event (mount, key or button, timer, digest completion) with the  *)
(* batch of state updates it makes and the effects React runs once the     *)
(* batch is committed.                                                     *)
(***************************************************************************)
EXTENDS Integers, Sequences, FiniteSets, TLC

\* ------------------------------------------------------------------ bounds

\* The ledger keeps the last 1000 attempts (lines 95-96); the model keeps
\* the last LedgerCap.
LedgerCap == 2
\* Digests are asked for while the guesses counted in the store plus the
\* digests in flight stay below MaxGuesses.
MaxGuesses == 4
\* makeGuess chains that exist at once (the live effect's and stale ones).
MaxLoops == 2
\* Manual digests in flight at once.
MaxManual == 1
\* Days since the start date that the clock reaches.
MaxPuzzle == 2
\* Hex characters of a digest (64 in calculateHash).
HashLen == 5
\* Largest puzzle number whose header text is built (SpecHeader).
MaxHeight == 101
\* Largest nonce whose evaluation alone is examined (SpecEval).
MaxNonce == 32

\* ------------------------------------------------------------- constants

LEADING_ZEROES == 4

\* startDate (line 10), new Date('2024-11-29'): midnight UTC, in days
\* since the epoch (getTime() is StartDay * 86400000).
StartDay == 20056

\* Array.from({length: 32}, ...) (line 43).
MerkleLength == 32

\* ------------------------------------------------------------ JS values

Num(v) == [k |-> "num", v |-> v]
NaN == [k |-> "nan", v |-> 0]
Null == [k |-> "null", v |-> 0]

isNaN(x) == x.k = "nan"

ValidationError == "Please enter a valid positive integer"
ProcessingError == "An error occurred while processing your guess"

Min(a, b) == IF a < b THEN a ELSE b

\* ---------------------------------------------------------- pure helpers

STORAGE_KEY(p) == <<"noncedle-puzzle-", p>>

Keys == {STORAGE_KEY(p) : p \in 1..MaxPuzzle}

\* localStorage.getItem of a key never written is null.
NoRecord == <<>>

\* The blockHeader cell of the game's state machine holds the puzzle number
\* its text was generated from (generateMockBlockHeader is one-to-one, the
\* height field being the puzzle number); '' is 0.
BlockHeaderOf(p) == p

\* ----------------------------------------------------- the header text

\* A 32-bit word as <<high half, low half>>, each in 0..65535.  The
\* bitwise operators of JavaScript work on the low 32 bits of their
\* operands, so a word stands for a number whatever its sign.
Half == 65536

\* The low 32 bits of a number n with 0 <= n < 2^31.
ToBits(n) == <<n \div Half, n % Half>>

\* x << k, for 0 < k < 16
Shl(x, k) ==
  <<(x[1] * (2 ^ k) + x[2] \div (2 ^ (16 - k))) % Half, (x[2] * (2 ^ k)) % Half>>

\* x >>> k, for k >= 16
Ushr(x, k) == <<0, x[1] \div (2 ^ (k - 16))>>

\* Bit by bit on two halves: or when both = 1, xor when both = 0.
RECURSIVE BitOp(_, _, _, _)
BitOp(m, n, both, bits) ==
  IF bits = 0 THEN 0
  ELSE LET sum == (m % 2) + (n % 2)
       IN (IF sum = 2 THEN both ELSE sum)
          + 2 * BitOp(m \div 2, n \div 2, both, bits - 1)

\* x | y
BitOr(x, y) == <<BitOp(x[1], y[1], 1, 16), BitOp(x[2], y[2], 1, 16)>>

\* x ^ y
BitXor(x, y) == <<BitOp(x[1], y[1], 0, 16), BitOp(x[2], y[2], 0, 16)>>

\* The low 32 bits of x + y.
Add32(x, y) ==
  <<(x[1] + y[1] + (x[2] + y[2]) \div Half) % Half, (x[2] + y[2]) % Half>>

\* The low 32 bits of x * 5 and of x * 9: the products are exact in a
\* double (below 2^36), and the operator that reads them next (<<, >>>)
\* keeps their low 32 bits.
Times5(x) == Add32(Shl(x, 2), x)
Times9(x) == Add32(Shl(x, 3), x)

\* One call of the function xoshiro128ss returns (lines 24-34): the value
\* returned and the four words it leaves.
xoshiro128ss(s) ==
  LET t == Shl(s.b, 9)
      r0 == Times5(s.a)
      r == Times9(BitOr(Shl(r0, 7), Ushr(r0, 25)))
      c1 == BitXor(s.c, s.a)
      d1 == BitXor(s.d, s.b)
      b1 == BitXor(s.b, c1)
      a1 == BitXor(s.a, d1)
      c2 == BitXor(c1, t)
      d2 == BitOr(Shl(d1, 11), Ushr(d1, 21))
  IN [out |-> r, s |-> [a |-> a1, b |-> b1, c |-> c2, d |-> d2]]

HexChars ==
  <<"0", "1", "2", "3", "4", "5", "6", "7", "8", "9", "a", "b", "c", "d",
    "e", "f">>

\* Hex digit k of a word (digit 0 the lowest), as a number.
Nibble(x, k) ==
  IF k >= 4 THEN (x[1] \div (16 ^ (k - 4))) % 16 ELSE (x[2] \div (16 ^ k)) % 16

\* (r >>> 0).toString(16): the hex digits from the highest that is not
\* zero, "0" for zero.
toString16(x) ==
  LET used == {k \in 0..7 : Nibble(x, k) # 0}
      top == IF used = {} THEN 0 ELSE CHOOSE k \in used : \A j \in used : j <= k
  IN [i \in 1..(top + 1) |-> HexChars[Nibble(x, top + 1 - i) + 1]]

\* s.padStart(n, '0')
padStart(s, n) == [i \in 1..(IF Len(s) < n THEN n - Len(s) ELSE 0) |-> "0"] \o s

\* s.slice(0, n)
sliceFirst(s, n) == SubSeq(s, 1, Min(n, Len(s)))

\* Variant of byteHex: the slice(0, 2) forgotten.
byteHexWhole(x) == padStart(toString16(x), 8)

\* rng().toString(16).padStart(8, '0').slice(0, 2) (line 44)
byteHex(x) == sliceFirst(padStart(toString16(x), 8), 2)

\* Array.from({length: k}, () => ...).join('') on a generator in state s.
RECURSIVE merkleHex(_, _)
merkleHex(s, k) ==
  IF k = 0 THEN <<>>
  ELSE LET x == xoshiro128ss(s) IN byteHex(x.out) \o merkleHex(x.s, k - 1)

\* String(n) of an integer n >= 0.
RECURSIVE Decimal(_)
Decimal(n) ==
  IF n < 10 THEN <<HexChars[n + 1]>>
  ELSE Decimal(n \div 10) \o <<HexChars[(n % 10) + 1]>>

\* The text of startDate.getTime() + (puzzleNumber - 1) * 24*60*60*1000
\* (line 48): 86400000 is 864 * 10^5, so the text is that of the day
\* count times 864 followed by five zeros.
timestampText(puzzleNumber) ==
  Decimal((StartDay + (puzzleNumber - 1)) * 864) \o <<"0", "0", "0", "0", "0">>

\* generateMockBlockHeader (lines 38-51): the template string of line 50.
generateMockBlockHeader(puzzleNumber) ==
  LET rng == [a |-> ToBits(puzzleNumber), b |-> ToBits(puzzleNumber * 747),
              c |-> ToBits(puzzleNumber * 911), d |-> ToBits(puzzleNumber * 537)]
  IN <<"v", "e", "r", "s", "i", "o", "n", "=", "2", ";", "p", "r", "e", "v",
     "=", "0", "0", "0", "0", "0", "0", "0", "0", "0", "0", "0", "0", "0",
     "0", "0", "0", "0">>
     \o Decimal(puzzleNumber - 1)
     \o <<";", "h", "e", "i", "g", "h", "t", "=">>
     \o Decimal(puzzleNumber)
     \o <<";", "t", "i", "m", "e", "s", "t", "a", "m", "p", "=">>
     \o timestampText(puzzleNumber)
     \o <<";", "m", "e", "r", "k", "l", "e", "=">>
     \o merkleHex(rng, MerkleLength)

DigitChars == {"0", "1", "2", "3", "4", "5", "6", "7", "8", "9"}

DigitVal(ch) ==
  CASE ch = "0" -> 0 [] ch = "1" -> 1 [] ch = "2" -> 2 [] ch = "3" -> 3
    [] ch = "4" -> 4 [] ch = "5" -> 5 [] ch = "6" -> 6 [] ch = "7" -> 7
    [] ch = "8" -> 8 [] ch = "9" -> 9

\* The longest prefix of s made of decimal digits, as a number; -1 if none.
RECURSIVE LeadingDigits(_, _, _)
LeadingDigits(s, i, acc) ==
  IF i > Len(s) \/ s[i] \notin DigitChars
  THEN acc
  ELSE LeadingDigits(s, i + 1, (IF acc < 0 THEN 0 ELSE acc) * 10 + DigitVal(s[i]))

\* parseInt(string): an optional sign, then the leading decimal digits;
\* NaN when there is none.
parseInt(s) ==
  LET neg == Len(s) > 0 /\ s[1] = "-"
      start == IF Len(s) > 0 /\ s[1] \in {"-", "+"} THEN 2 ELSE 1
      d == LeadingDigits(s, start, -1)
  IN IF d < 0 THEN NaN ELSE Num(IF neg THEN 0 - d ELSE d)

\* How many leading zero digits the digest of header + nonce has.
LeadingZeroCount(header, n) == (n * header) % 5

\* calculateHash(header + nonce): a fixed function of the header and the
\* nonce giving HashLen hex digits (0..15), standing for SHA-256.
calculateHash(header, n) ==
  LET z == LeadingZeroCount(header, n)
  IN [i \in 1..HashLen |->
        IF i <= z THEN 0
        ELSE IF i = z + 1 THEN 1 + ((n + header) % 15)
        ELSE ((n + i * header) % 4) * 5]

\* Variant of checkHash: substring(0, LEADING_ZEROES - 1).
checkHashShort(hash) ==
  [i \in 1..Min(LEADING_ZEROES - 1, Len(hash)) |-> hash[i] = 0]

\* hash.substring(0, LEADING_ZEROES).split('').map(digit => digit === '0')
checkHash(hash) ==
  [i \in 1..Min(LEADING_ZEROES, Len(hash)) |-> hash[i] = 0]

\* result.every(x => x)
every(result) == \A i \in 1..Len(result) : result[i]

\* Variant of InvalidNonce: the isNaN test forgotten.
InvalidNonceMissingNaN(nonce) == nonce.k = "num" /\ nonce.v < 0

\* The validation of handleGuess (line 82): isNaN(nonce) || nonce < 0.
InvalidNonce(nonce) == isNaN(nonce) \/ nonce.v < 0

\* newAttempts.slice(-1000)
sliceLast(seq, n) ==
  IF Len(seq) <= n THEN seq ELSE SubSeq(seq, Len(seq) - n + 1, Len(seq))

\* Variant of appendAttempt: the ledger never truncated.
appendAttemptNoSlice(prev, result) == Append(prev, result)

\* Variant of appendAttempt: slice(0, 1000) for slice(-1000).
appendAttemptKeepFirst(prev, result) ==
  LET newAttempts == Append(prev, result)
  IN IF Len(newAttempts) > LedgerCap
     THEN SubSeq(newAttempts, 1, LedgerCap)
     ELSE newAttempts

\* The updater given to setAttempts (lines 93-99).
appendAttempt(prev, result) ==
  LET newAttempts == Append(prev, result)
  IN IF Len(newAttempts) > LedgerCap
     THEN sliceLast(newAttempts, LedgerCap)
     ELSE newAttempts

\* Variant of incrementTotal: the counter capped as the ledger is.
incrementTotalCapped(prev) == Min(prev + 1, LedgerCap)

\* The updater given to setTotalGuesses (line 100).
incrementTotal(prev) == prev + 1

\* JSON.stringify of the saved object, as the sequence of its five values
\* in key order; a number that is not finite is written null.
jsonNumber(x) == IF x.k = "num" THEN <<x.v>> ELSE <<>>

JSON_stringify(g) ==
  <<g.attempts, g.totalGuesses, g.won, g.latestHash, jsonNumber(g.latestNonce)>>

JSON_parse(text) ==
  [attempts |-> text[1], totalGuesses |-> text[2], won |-> text[3],
   latestHash |-> text[4],
   latestNonce |-> IF text[5] = <<>> THEN Null ELSE Num(text[5][1])]

\* A stored text that JSON.parse rejects: a record cut short, or one that
\* other code left under the key.
Malformed == <<"{">>

\* JSON.parse(saved) throws a SyntaxError (line 173, in no try block).
JSON_parse_throws(text) == text = Malformed

\* The state of a freshly constructed component (the useState defaults).
FreshGame ==
  [attempts |-> <<>>, totalGuesses |-> 0, won |-> FALSE,
   latestHash |-> <<>>, latestNonce |-> Null]

\* ------------------------------------------------------------------ state

VARIABLES
  mounted,        \* a component instance exists
  today,          \* todaysPuzzleNumber the clock gives (daysSinceStart + 1)
  store,          \* localStorage: key -> text, NoRecord when never written
  blockHeader, puzzleNumber, currentGuess, attempts, latestHash,
  latestNonce, won, error, autoGuessing, totalGuesses,   \* the useState cells
  queued,         \* state updates made by the last commit's effects
  loops,          \* the makeGuess chains running, oldest first: each the
                  \* closure of one run of the auto-guess effect, with the
                  \* autoGuessing and won it captured, where it stands
                  \* ("digest" awaited or "timer" pending) and whether it
                  \* is the live run's (its cleanup has not run yet)
  manual,         \* digests of manual guesses in flight, in issue order
  snapshot,       \* history: <<puzzleNumber, the saved object>> at the last
                  \* unmount, <<>> once a guess has been recorded since
  crashed         \* an effect threw and React unmounted the tree

vars ==
  <<mounted, today, store, blockHeader, puzzleNumber, currentGuess, attempts,
    latestHash, latestNonce, won, error, autoGuessing, totalGuesses, queued,
    loops, manual, snapshot, crashed>>

\* What the user types into the number input.
Inputs == {<<"7">>, <<"-", "5">>, <<".", "5">>}

\* Values of Math.floor(Math.random() * Number.MAX_SAFE_INTEGER) (line
\* 128).  The nonce a chain drew shows nowhere before its digest resolves,
\* so the model draws it then.
RandomNonces == {4, 7}

\* The cells handleGuess writes, as one record.
View ==
  [attempts |-> attempts, totalGuesses |-> totalGuesses, won |-> won,
   latestHash |-> latestHash, latestNonce |-> latestNonce, error |-> error]

\* The object the save effect writes (lines 185-191).
Game(v) ==
  [attempts |-> v.attempts, totalGuesses |-> v.totalGuesses, won |-> v.won,
   latestHash |-> v.latestHash, latestNonce |-> v.latestNonce]

Settled == mounted /\ queued = <<>>

\* Digests in flight.
InFlight(lp, mn) ==
  Cardinality({c \in 1..Len(lp) : lp[c].st = "digest"}) + Len(mn)

\* The guesses counted in the records of puzzles 1..p.
RECURSIVE StoredGuesses(_, _)
StoredGuesses(st, p) ==
  IF p = 0 THEN 0
  ELSE StoredGuesses(st, p - 1)
       + (IF st[STORAGE_KEY(p)] \in {NoRecord, Malformed} THEN 0
          ELSE JSON_parse(st[STORAGE_KEY(p)]).totalGuesses)

\* A digest may be asked for while the guesses counted in the store and the
\* digests in flight stay below MaxGuesses.
Budget(st, lp, mn) == StoredGuesses(st, MaxPuzzle) + InFlight(lp, mn) < MaxGuesses

Init ==
  /\ mounted = FALSE
  /\ today = 1
  /\ store = [key \in Keys |-> NoRecord]
  /\ blockHeader = 0
  /\ puzzleNumber = 1
  /\ currentGuess = <<>>
  /\ attempts = <<>>
  /\ latestHash = <<>>
  /\ latestNonce = Null
  /\ won = FALSE
  /\ error = ""
  /\ autoGuessing = FALSE
  /\ totalGuesses = 0
  /\ queued = <<>>
  /\ loops = <<>>
  /\ manual = <<>>
  /\ snapshot = <<>>
  /\ crashed = FALSE

\* ------------------------------------------------------------ handleGuess

\* handleGuess on an invalid nonce (lines 82-85).
handleGuessReject(v) == [v EXCEPT !.error = ValidationError]

\* Variant of handleGuessCatch: the counter incremented before the await.
handleGuessCatchAfterCount(v) ==
  [v EXCEPT !.error = ProcessingError, !.totalGuesses = @ + 1]

\* handleGuess when calculateHash throws or rejects (lines 107-110): the
\* updates all follow the await, so the catch finds none of them made.
handleGuessCatch(v) == [v EXCEPT !.error = ProcessingError]

\* Variant of handleGuessRecord: won set to the result of each guess.
handleGuessRecordSetsWon(v, nonce, newHash) ==
  LET result == checkHash(newHash)
  IN [v EXCEPT !.latestHash = newHash,
               !.latestNonce = nonce,
               !.attempts = appendAttempt(@, result),
               !.totalGuesses = incrementTotal(@),
               !.won = every(result)]

\* Variant of handleGuessRecord: a recorded guess clears the error.
handleGuessRecordClearsError(v, nonce, newHash) ==
  LET result == checkHash(newHash)
  IN [v EXCEPT !.latestHash = newHash,
               !.latestNonce = nonce,
               !.attempts = appendAttempt(@, result),
               !.totalGuesses = incrementTotal(@),
               !.won = IF every(result) THEN TRUE ELSE @,
               !.error = ""]

\* handleGuess once the digest has resolved (lines 89-105).
handleGuessRecord(v, nonce, newHash) ==
  LET result == checkHash(newHash)
  IN [v EXCEPT !.latestHash = newHash,
               !.latestNonce = nonce,
               !.attempts = appendAttempt(@, result),
               !.totalGuesses = incrementTotal(@),
               !.won = IF every(result) THEN TRUE ELSE @]

\* --------------------------------------------------------------- effects

\* The cleanup of the auto-guess effect (lines 142-146), run on the live
\* closure: a pending timer is cleared; while the digest is awaited the
\* closure's timeoutId holds nothing pending, and the chain goes on.
TimerPending(ch) == ch.live /\ ch.st = "timer"
NoTimerPending(ch) == ~TimerPending(ch)

cleanup(lp) ==
  LET kept == SelectSeq(lp, NoTimerPending)
  IN [c \in 1..Len(kept) |-> [kept[c] EXCEPT !.live = FALSE]]

\* The auto-guess effect (lines 122-147) after a commit with autoGuessing
\* ag and won w: when a dependency changed, the cleanup of the previous
\* closure, then the new closure's first makeGuess, which draws a nonce and
\* awaits its digest.  The set of the loops it can leave.
AutoEffect(lp, changed, ag, w, st, mn) ==
  IF ~changed THEN {lp}
  ELSE LET cl == cleanup(lp)
       IN IF ag /\ ~(~ag \/ w)
          THEN IF Len(cl) < MaxLoops /\ Budget(st, cl, mn)
               THEN {Append(cl, [st |-> "digest", live |-> TRUE,
                                 autoGuessing |-> ag, won |-> w])}
               ELSE {}
          ELSE {cl}

\* The save effect (lines 184-192), run when one of its dependencies changed.
SaveEffect(st, changed, p, v) ==
  IF changed THEN [st EXCEPT ![STORAGE_KEY(p)] = JSON_stringify(Game(v))] ELSE st

\* Variant of loadSavedState: setWon(state.won) left out.
loadSavedStateNoWon(st, p) ==
  LET saved == st[STORAGE_KEY(p)]
  IN IF saved # NoRecord
     THEN <<[JSON_parse(saved) EXCEPT !.won = FALSE]>>
     ELSE <<>>

\* loadSavedState (lines 170-180): the updates it queues, none when nothing
\* is stored under the key.
loadSavedState(st, p) ==
  LET saved == st[STORAGE_KEY(p)]
  IN IF saved # NoRecord THEN <<JSON_parse(saved)>> ELSE <<>>

\* A batch of updates committed with no change of puzzleNumber: the cells,
\* then the auto-guess effect and the save effect.
Commit(v, ag, lp, mn) ==
  /\ attempts' = v.attempts
  /\ totalGuesses' = v.totalGuesses
  /\ won' = v.won
  /\ latestHash' = v.latestHash
  /\ latestNonce' = v.latestNonce
  /\ error' = v.error
  /\ autoGuessing' = ag
  /\ store' = SaveEffect(store, Game(v) # Game(View), puzzleNumber, v)
  /\ loops' \in AutoEffect(lp, ag # autoGuessing \/ v.won # won, ag, v.won,
                           store', mn)

Remove(seq, i) == [j \in 1..(Len(seq) - 1) |-> IF j < i THEN seq[j] ELSE seq[j + 1]]

\* --------------------------------------------------------------- actions

\* An exception thrown inside an effect (JSON.parse at line 173,
\* localStorage.setItem at line 192) is caught by nothing: the effects
\* after it in the component do not run, and React, finding no error
\* boundary, unmounts the tree.  The store keeps what it held.
Uncaught ==
  /\ crashed' = TRUE
  /\ mounted' = FALSE
  /\ blockHeader' = 0
  /\ puzzleNumber' = 1
  /\ currentGuess' = <<>>
  /\ attempts' = FreshGame.attempts
  /\ totalGuesses' = FreshGame.totalGuesses
  /\ won' = FreshGame.won
  /\ latestHash' = FreshGame.latestHash
  /\ latestNonce' = FreshGame.latestNonce
  /\ error' = ""
  /\ autoGuessing' = FALSE
  /\ loops' = <<>>
  /\ manual' = <<>>
  /\ queued' = <<>>
  /\ UNCHANGED <<today, store, snapshot>>

\* The clock passes midnight: todaysPuzzleNumber (lines 68-70) grows by one.
\* The clock is read by the mount effect alone, so a day that passes while
\* the component is mounted shows at the next mount, as one passing after
\* the unmount does.
DayPasses ==
  /\ ~mounted
  /\ today < MaxPuzzle
  /\ today' = today + 1
  /\ UNCHANGED <<mounted, store, blockHeader, puzzleNumber, currentGuess,
                 attempts, latestHash, latestNonce, won, error, autoGuessing,
                 totalGuesses, queued, loops, manual, snapshot,
                 crashed>>

\* The first render (lines 54-64) and its effects in order: the mount
\* effect (67-73) queues puzzleNumber and blockHeader, the auto-guess
\* effect does nothing, loadSavedState reads the key of puzzleNumber 1, the
\* save effect writes the defaults under that key.
Mount ==
  /\ ~mounted
  /\ IF JSON_parse_throws(store[STORAGE_KEY(1)])
     THEN Uncaught
     ELSE /\ mounted' = TRUE
          /\ crashed' = FALSE
          /\ blockHeader' = 0
          /\ puzzleNumber' = 1
          /\ currentGuess' = <<>>
          /\ attempts' = FreshGame.attempts
          /\ totalGuesses' = FreshGame.totalGuesses
          /\ won' = FreshGame.won
          /\ latestHash' = FreshGame.latestHash
          /\ latestNonce' = FreshGame.latestNonce
          /\ error' = ""
          /\ autoGuessing' = FALSE
          /\ loops' = <<>>
          /\ manual' = <<>>
          /\ queued' = <<[puzzleNumber |-> today,
                          blockHeader |-> BlockHeaderOf(today),
                          load |-> loadSavedState(store, 1)]>>
          /\ store' = SaveEffect(store, TRUE, 1, FreshGame)
          /\ UNCHANGED <<today, snapshot>>

\* The render that commits the updates queued by the effects, and its
\* effects: loadSavedState when puzzleNumber changed (169-182), then the
\* save effect when any of its dependencies changed (184-192); a loaded
\* attempts array is a new object, so a load always counts as a change.
Flush ==
  /\ mounted
  /\ queued # <<>>
  /\ LET q == queued[1]
         g == IF q.load # <<>> THEN q.load[1] ELSE Game(View)
         v == g @@ [error |-> error]
         pnChanged == q.puzzleNumber # puzzleNumber
         reload == IF pnChanged THEN loadSavedState(store, q.puzzleNumber) ELSE <<>>
     IN IF pnChanged /\ JSON_parse_throws(store[STORAGE_KEY(q.puzzleNumber)])
        THEN Uncaught
        ELSE /\ puzzleNumber' = q.puzzleNumber
             /\ blockHeader' = q.blockHeader
             /\ attempts' = v.attempts
             /\ totalGuesses' = v.totalGuesses
             /\ won' = v.won
             /\ latestHash' = v.latestHash
             /\ latestNonce' = v.latestNonce
             /\ loops' \in AutoEffect(loops, v.won # won, autoGuessing, v.won,
                                      store, manual)
             /\ queued' = IF reload # <<>>
                          THEN <<[puzzleNumber |-> q.puzzleNumber,
                                  blockHeader |-> q.blockHeader,
                                  load |-> reload]>>
                          ELSE <<>>
             /\ store' = SaveEffect(store, pnChanged \/ q.load # <<>>,
                                    q.puzzleNumber, v)
             /\ UNCHANGED <<mounted, today, currentGuess, error, autoGuessing,
                            manual, snapshot, crashed>>

\* The component is unmounted (or the page closed): the live closure's
\* cleanup runs, and what the old instance's callbacks set afterwards
\* reaches no state.
Unmount ==
  /\ mounted
  /\ mounted' = FALSE
  /\ snapshot' = <<puzzleNumber, Game(View)>>
  /\ blockHeader' = 0
  /\ puzzleNumber' = 1
  /\ currentGuess' = <<>>
  /\ attempts' = FreshGame.attempts
  /\ totalGuesses' = FreshGame.totalGuesses
  /\ won' = FreshGame.won
  /\ latestHash' = FreshGame.latestHash
  /\ latestNonce' = FreshGame.latestNonce
  /\ error' = ""
  /\ autoGuessing' = FALSE
  /\ loops' = <<>>
  /\ manual' = <<>>
  /\ queued' = <<>>
  /\ UNCHANGED <<today, store, crashed>>

\* onChange of the guess input (line 224), enabled as line 232 says.
Type(text) ==
  /\ Settled
  /\ ~(won \/ autoGuessing)
  /\ currentGuess' = text
  /\ UNCHANGED <<mounted, today, store, blockHeader, puzzleNumber, attempts,
                 latestHash, latestNonce, won, error, autoGuessing,
                 totalGuesses, queued, loops, manual, snapshot,
                 crashed>>

\* The Guess button or Enter (lines 225-229, 235-236): handleManualGuess up
\* to the await of the digest; an invalid nonce is rejected at once and
\* the input cleared (lines 82-85, 115).
ManualGuess ==
  /\ Settled
  /\ currentGuess # <<>> /\ ~won /\ ~autoGuessing
  /\ LET nonce == parseInt(currentGuess)
     IN IF InvalidNonce(nonce)
        THEN /\ Commit(handleGuessReject(View), autoGuessing, loops, manual)
             /\ currentGuess' = <<>>
             /\ manual' = manual
        ELSE /\ Len(manual) < MaxManual
             /\ Budget(store, loops, manual)
             /\ manual' = Append(manual, [nonce |-> nonce.v, header |-> blockHeader])
             /\ UNCHANGED <<store, currentGuess, attempts, latestHash,
                            latestNonce, won, error, autoGuessing,
                            totalGuesses, loops>>
  /\ UNCHANGED <<mounted, today, blockHeader, puzzleNumber, queued, snapshot,
                 crashed>>

\* The digest of a manual guess resolves (ok) or throws: the rest of
\* handleGuess (89-110) and of handleManualGuess (115).
ManualDigestDone(i, ok) ==
  /\ Settled
  /\ i \in 1..Len(manual)
  /\ LET m == manual[i]
         v == IF ok
              THEN handleGuessRecord(View, Num(m.nonce), calculateHash(m.header, m.nonce))
              ELSE handleGuessCatch(View)
     IN Commit(v, autoGuessing, loops, Remove(manual, i))
  /\ manual' = Remove(manual, i)
  /\ currentGuess' = <<>>
  /\ snapshot' = IF ok THEN <<>> ELSE snapshot
  /\ UNCHANGED <<mounted, today, blockHeader, puzzleNumber, queued, crashed>>

\* The key sequence completes (lines 156-159): startAutoGuessing (119).
StartAutoGuessing ==
  /\ Settled
  /\ Commit(View, TRUE, loops, manual)
  /\ UNCHANGED <<mounted, today, blockHeader, puzzleNumber, currentGuess,
                 queued, manual, snapshot, crashed>>

\* The stop button (lines 252-256): stopAutoGuessing (120).
StopAutoGuessing ==
  /\ Settled
  /\ autoGuessing /\ ~won
  /\ Commit(View, FALSE, loops, manual)
  /\ UNCHANGED <<mounted, today, blockHeader, puzzleNumber, currentGuess,
                 queued, manual, snapshot, crashed>>

\* The timer of chain c fires: makeGuess (125-129) with the autoGuessing
\* and won its closure captured, up to the await of the digest.
TimerFire(c) ==
  /\ Settled
  /\ c \in 1..Len(loops)
  /\ loops[c].st = "timer"
  /\ ~(~loops[c].autoGuessing \/ loops[c].won)
  /\ Budget(store, loops, manual)
  /\ loops' = [loops EXCEPT ![c].st = "digest"]
  /\ UNCHANGED <<mounted, today, store, blockHeader, puzzleNumber,
                 currentGuess, attempts, latestHash, latestNonce, won, error,
                 autoGuessing, totalGuesses, queued, manual, snapshot,
                 crashed>>

\* Variant of reschedule: makeGuess sets no timer.
rescheduleNever(lp, c, success) == Remove(lp, c)

\* Lines 131-135 of makeGuess once handleGuess has returned success: the
\* chain ends on a win (stopAutoGuessing is the caller's part), else it
\* sets its timer when the autoGuessing of its closure is true.
reschedule(lp, c, success) ==
  IF ~success /\ lp[c].autoGuessing
  THEN [lp EXCEPT ![c].st = "timer"]
  ELSE Remove(lp, c)

\* The digest of chain c resolves (ok) or throws: the rest of handleGuess,
\* then lines 131-135 of makeGuess with the closure's autoGuessing.
AutoDigestDone(c, randomNonce, ok) ==
  /\ Settled
  /\ c \in 1..Len(loops)
  /\ loops[c].st = "digest"
  /\ LET v == IF ok
              THEN handleGuessRecord(View, Num(randomNonce),
                                     calculateHash(blockHeader, randomNonce))
              ELSE handleGuessCatch(View)
         success == ok /\ every(checkHash(v.latestHash))
         lp == reschedule(loops, c, success)
     IN Commit(v, IF success THEN FALSE ELSE autoGuessing, lp, manual)
  /\ snapshot' = IF ok THEN <<>> ELSE snapshot
  /\ UNCHANGED <<mounted, today, blockHeader, puzzleNumber, currentGuess,
                 queued, manual, crashed>>

Next ==
  \/ DayPasses
  \/ Mount
  \/ Flush
  \/ Unmount
  \/ \E text \in Inputs : Type(text)
  \/ ManualGuess
  \/ \E i \in 1..MaxManual, ok \in BOOLEAN : ManualDigestDone(i, ok)
  \/ StartAutoGuessing
  \/ StopAutoGuessing
  \/ \E c \in 1..MaxLoops : TimerFire(c)
  \/ \E c \in 1..MaxLoops, n \in RandomNonces, ok \in BOOLEAN :
       AutoDigestDone(c, n, ok)

Spec == Init /\ [][Next]_vars

\* ------------------------------------------------ the loop's progress

\* The events of one day: every action but the passing of a day.
NextLive ==
  \/ Mount
  \/ Flush
  \/ Unmount
  \/ \E text \in Inputs : Type(text)
  \/ ManualGuess
  \/ \E i \in 1..MaxManual, ok \in BOOLEAN : ManualDigestDone(i, ok)
  \/ StartAutoGuessing
  \/ StopAutoGuessing
  \/ \E c \in 1..MaxLoops : TimerFire(c)
  \/ \E c \in 1..MaxLoops, n \in RandomNonces, ok \in BOOLEAN :
       AutoDigestDone(c, n, ok)

\* The event loop runs every timer that stays pending: setTimeout's
\* callback is called once its delay has passed (line 134).
SpecLive ==
  Init /\ [][NextLive]_vars /\ \A c \in 1..MaxLoops : WF_vars(TimerFire(c))

\* ------------------------------------------------ one guess, any nonce

\* A settled component on puzzle h whose user has just issued the manual
\* guess n (handleManualGuess awaiting the digest), for every header the
\* clock reaches and every nonce up to MaxNonce.
InitEval ==
  \E h \in 1..MaxPuzzle, n \in 0..MaxNonce :
    /\ mounted = TRUE
    /\ today = h
    /\ store = [key \in Keys |-> NoRecord]
    /\ blockHeader = BlockHeaderOf(h)
    /\ puzzleNumber = h
    /\ currentGuess = <<>>
    /\ attempts = FreshGame.attempts
    /\ latestHash = FreshGame.latestHash
    /\ latestNonce = FreshGame.latestNonce
    /\ won = FreshGame.won
    /\ error = ""
    /\ autoGuessing = FALSE
    /\ totalGuesses = FreshGame.totalGuesses
    /\ queued = <<>>
    /\ loops = <<>>
    /\ manual = <<[nonce |-> n, header |-> BlockHeaderOf(h)]>>
    /\ snapshot = <<>>
    /\ crashed = FALSE

NextEval == \E ok \in BOOLEAN : ManualDigestDone(1, ok)

\* handleGuess (80-111) applied once to each header and nonce.
SpecEval == InitEval /\ [][NextEval]_vars

\* ------------------------------------------------- the header alone

\* A component about to run its mount effect on the day of puzzle p.
InitHeader ==
  /\ today \in 1..MaxHeight
  /\ mounted = FALSE
  /\ store = [key \in Keys |-> NoRecord]
  /\ blockHeader = <<>>
  /\ puzzleNumber = 1
  /\ currentGuess = <<>>
  /\ attempts = <<>>
  /\ latestHash = <<>>
  /\ latestNonce = Null
  /\ won = FALSE
  /\ error = ""
  /\ autoGuessing = FALSE
  /\ totalGuesses = 0
  /\ queued = <<>>
  /\ loops = <<>>
  /\ manual = <<>>
  /\ snapshot = <<>>
  /\ crashed = FALSE

\* The mount effect (lines 67-73) with the text of the header kept in the
\* blockHeader cell: setPuzzleNumber and setBlockHeader.
SetBlockHeader ==
  /\ blockHeader = <<>>
  /\ puzzleNumber' = today
  /\ blockHeader' = generateMockBlockHeader(today)
  /\ UNCHANGED <<mounted, today, store, currentGuess, attempts, latestHash,
                 latestNonce, won, error, autoGuessing, totalGuesses, queued,
                 loops, manual, snapshot, crashed>>

\* generateMockBlockHeader applied to each puzzle number.
SpecHeader == InitHeader /\ [][SetBlockHeader]_vars

\* ------------------------------------------------- persistence failures

\* Between two sessions the text under puzzle p's key becomes one that
\* JSON.parse rejects (getItem at line 171 returns whatever the origin's
\* storage holds).
StoreCorrupted(p) ==
  /\ ~mounted
  /\ store[STORAGE_KEY(p)] # Malformed
  /\ store' = [store EXCEPT ![STORAGE_KEY(p)] = Malformed]
  /\ UNCHANGED <<mounted, today, blockHeader, puzzleNumber, currentGuess,
                 attempts, latestHash, latestNonce, won, error, autoGuessing,
                 totalGuesses, queued, loops, manual, snapshot, crashed>>

\* The first render of a mount when localStorage.setItem throws (quota
\* exceeded, storage disabled): loadSavedState has read a record or none,
\* then the save effect (line 192) throws.
MountWriteThrows ==
  /\ ~mounted
  /\ ~JSON_parse_throws(store[STORAGE_KEY(1)])
  /\ Uncaught

NextFaults ==
  \/ Next
  \/ \E p \in 1..MaxPuzzle : StoreCorrupted(p)
  \/ MountWriteThrows

\* The component in an origin whose storage can fail.
SpecFaults == Init /\ [][NextFaults]_vars

\* ---------------------------------------------------------------- claims

\* Steps of the kinds the claims speak of.
TimerFires == \E c \in 1..MaxLoops : TimerFire(c)
AutoRecords == \E c \in 1..MaxLoops, n \in RandomNonces : AutoDigestDone(c, n, TRUE)
ManualRecords == \E i \in 1..MaxManual : ManualDigestDone(i, TRUE)
DigestFails ==
  \/ \E c \in 1..MaxLoops, n \in RandomNonces : AutoDigestDone(c, n, FALSE)
  \/ \E i \in 1..MaxManual : ManualDigestDone(i, FALSE)
Recorded == <<attempts, totalGuesses, latestHash, latestNonce, won>>
Winning(ledger) == \E i \in 1..Len(ledger) : \A j \in 1..Len(ledger[i]) : ledger[i][j]

\* C1: once a stop has taken effect without a win (autoGuessing false, won
\* false), no new auto-guess iteration starts: no timer of a makeGuess
\* chain fires into another handleGuess.
C1_NoIterationAfterStop == [][(~autoGuessing /\ ~won) => ~TimerFires]_vars

\* C2: at most one makeGuess iteration is outstanding (awaiting its digest
\* or waiting on its timer) in every reachable state.
C2_SingleOutstanding == Len(loops) <= 1

\* C3: once won is true, no further auto-guess iteration is started.
C3_NoIterationAfterWin == [][won => ~TimerFires]_vars

\* C4: in every committed state, won is true exactly when some attempt held
\* in the ledger has every element true.
C4_WonIffWinningAttempt == won <=> Winning(attempts)

\* C5: a stop made while every outstanding iteration waits on its timer (no
\* digest in flight) leaves no timer pending, so no iteration runs after it.
C5_StopClearsScheduled ==
  [][(StopAutoGuessing /\ Len(loops) > 0 /\ InFlight(loops, <<>>) = 0)
       => \A c \in 1..Len(loops') : loops'[c].st # "timer"]_vars

\* C6: the ledger never holds more than LedgerCap attempts, and a recorded
\* attempt leaves exactly the most recent LedgerCap of the old ledger
\* followed by the new result, in their order, the newest last.
C6_LedgerKeepsMostRecent ==
  /\ [](Len(attempts) <= LedgerCap)
  /\ [][(AutoRecords \/ ManualRecords) =>
          LET full == Append(attempts, [i \in 1..LEADING_ZEROES |-> latestHash'[i] = 0])
              drop == Len(full) - Len(attempts')
          IN /\ Len(attempts') = Min(Len(full), LedgerCap)
             /\ \A j \in 1..Len(attempts') : attempts'[j] = full[j + drop]]_vars

\* A recorded attempt has pushed the oldest one out of the ledger.
C6_Witness ==
  /\ mounted /\ totalGuesses > LedgerCap /\ Len(attempts) = LedgerCap
  /\ attempts[1] # attempts[LedgerCap]

\* C7: every recorded attempt adds exactly 1 to totalGuesses, truncated
\* ledger or not, and no step of a mounted component lowers it.
C7_TotalCountsEveryAttempt ==
  [][/\ (AutoRecords \/ ManualRecords) => totalGuesses' = totalGuesses + 1
     /\ mounted' => totalGuesses' >= totalGuesses]_vars

\* The attempt after the ledger filled up has been recorded and counted.
C7_Witness == mounted /\ totalGuesses = LedgerCap + 1 /\ Len(attempts) = LedgerCap

\* C8: a manual guess whose nonce is NaN or negative sets the validation
\* error, asks for no digest and leaves attempts, totalGuesses, latestHash,
\* latestNonce and won as they were.
C8_InvalidNonceRejected ==
  [][(ManualGuess /\ LET nonce == parseInt(currentGuess)
                     IN nonce.k = "nan" \/ (nonce.k = "num" /\ nonce.v < 0))
       => /\ UNCHANGED Recorded
          /\ error' = ValidationError
          /\ manual' = manual /\ loops' = loops]_vars

\* An invalid nonce has been rejected after a guess was recorded.
C8_Witness == mounted /\ error = ValidationError /\ totalGuesses > 0

\* C9: a digest that throws or rejects sets the processing error and leaves
\* attempts, totalGuesses, latestHash, latestNonce and won as they were;
\* the component stays mounted and an auto-guess chain stays scheduled.
C9_DigestFailureRecordsNothing ==
  [][DigestFails
       => /\ UNCHANGED Recorded
          /\ error' = ProcessingError
          /\ mounted'
          /\ Len(loops') = Len(loops)]_vars

\* A digest has failed after a guess was recorded.
C9_Witness == mounted /\ error = ProcessingError /\ totalGuesses > 0

\* C10: mounted again on the puzzle number it was unmounted on, with no
\* guess recorded since, the component once its mount has settled holds the
\* attempts, totalGuesses, won, latestHash and latestNonce it held at the
\* unmount, and the record under the puzzle's key is that state again.
C10_ReloadRoundTrip ==
  (Settled /\ snapshot # <<>> /\ snapshot[1] = puzzleNumber)
    => /\ Game(View) = snapshot[2]
       /\ store[STORAGE_KEY(puzzleNumber)] # NoRecord
       /\ JSON_parse(store[STORAGE_KEY(puzzleNumber)]) = snapshot[2]

\* A game with recorded guesses has been restored by a remount.
C10_Witness ==
  /\ Settled /\ snapshot # <<>> /\ snapshot[1] = puzzleNumber
  /\ totalGuesses > 1 /\ latestNonce # Null /\ won

\* C11: when the render that commits today's puzzleNumber finds no record
\* under that puzzle's key and the mount settles with it, the game held is
\* the fresh one and the record written under the key is the fresh one,
\* whatever is stored under other puzzle numbers.
C11_NoRecordGivesFreshGame ==
  [][(/\ Flush
      /\ queued[1].puzzleNumber # puzzleNumber
      /\ store[STORAGE_KEY(queued[1].puzzleNumber)] = NoRecord)
       => /\ queued' = <<>>
          /\ Game(View)' = FreshGame
          /\ store'[STORAGE_KEY(puzzleNumber')] = JSON_stringify(FreshGame)]_vars

\* C12: no failure of the store ends the session: a malformed record read
\* on load and a write that throws leave the component mounted, never torn
\* down by the exception.
C12_PersistenceNeverFatal == ~crashed

\* C13: once won is true it is never false again while the component stays
\* mounted: no guess, start, stop or load of the session resets it.
C13_WinIsSticky == [][(won /\ mounted') => won']_vars

\* The game is won and a later guess that did not win has been recorded.
C13_Witness ==
  /\ mounted /\ won /\ Len(attempts) > 0
  /\ ~every(attempts[Len(attempts)])

\* The chain of the running auto-guess effect records an attempt.
LiveAutoRecords ==
  \E c \in 1..MaxLoops, n \in RandomNonces :
    AutoDigestDone(c, n, TRUE) /\ loops[c].live

\* C14: attempts enter the ledger in the order the guesses were issued: a
\* manual guess is recorded only when it is the oldest manual guess in
\* flight, and the running auto-guess chain, whose digests are all asked
\* for after every manual guess in flight was issued (none can be issued
\* while autoGuessing is true), records only when no manual guess is in
\* flight.
C14_LedgerInIssueOrder ==
  [][/\ \A i \in 1..MaxManual : ManualDigestDone(i, TRUE) => i = 1
     /\ LiveAutoRecords => manual = <<>>]_vars

\* C15: a manual guess is issued only while autoGuessing is false, and the
\* writes of a manual evaluation and of auto-guess iterations are never
\* interleaved: when either records an attempt none of the other kind is
\* outstanding.
C15_NoInterleavedWrites ==
  [][/\ ManualGuess => ~autoGuessing
     /\ ManualRecords => loops = <<>>
     /\ AutoRecords => manual = <<>>]_vars

\* What C16 asks of the attempt recorded for a digest: LEADING_ZEROES
\* elements, element i true exactly when character i of the digest is
\* '0', and won set by this guess exactly when every element is true.
EvaluatedAs(hash) ==
  LET a == attempts'[Len(attempts')]
  IN /\ Len(hash) = HashLen
     /\ Len(attempts') > 0
     /\ Len(a) = LEADING_ZEROES
     /\ \A i \in 1..LEADING_ZEROES : a[i] <=> (hash[i] = 0)
     /\ won' <=> (won \/ \A i \in 1..LEADING_ZEROES : a[i])

\* C16: for every header and every nonce n >= 0, the attempt handleGuess
\* records has exactly LEADING_ZEROES elements, element i true exactly
\* when character i of the digest of header + n is '0', and the guess is
\* a win exactly when every element is true.
C16_AttemptMatchesDigest ==
  [][/\ \A i \in 1..MaxManual :
          ManualDigestDone(i, TRUE)
            => EvaluatedAs(calculateHash(manual[i].header, manual[i].nonce))
     /\ \A c \in 1..MaxLoops, n \in RandomNonces :
          AutoDigestDone(c, n, TRUE) => EvaluatedAs(calculateHash(blockHeader, n))]_vars

\* A digest whose second character alone is '0' has been evaluated: the
\* zero is reported in its place and the guess is no win.
C16_Witness ==
  /\ mounted /\ manual = <<>> /\ ~won
  /\ attempts = <<<<FALSE, TRUE, FALSE, FALSE>>>>

\* The pieces of a text between the occurrences of a separator.
RECURSIVE Split(_, _)
Split(s, sep) ==
  IF \E i \in 1..Len(s) : s[i] = sep
  THEN LET i == CHOOSE k \in 1..Len(s) :
                  s[k] = sep /\ \A j \in 1..(k - 1) : s[j] # sep
       IN <<SubSeq(s, 1, i - 1)>> \o Split(SubSeq(s, i + 1, Len(s)), sep)
  ELSE <<s>>

FieldNames ==
  << <<"v", "e", "r", "s", "i", "o", "n">>, <<"p", "r", "e", "v">>,
     <<"h", "e", "i", "g", "h", "t">>,
     <<"t", "i", "m", "e", "s", "t", "a", "m", "p">>,
     <<"m", "e", "r", "k", "l", "e">> >>

\* The header is five key=value fields separated by ';', named version,
\* prev, height, timestamp and merkle in this order, and the merkle value
\* is 64 hexadecimal characters.
FieldsAndMerkle(header) ==
  LET fields == Split(header, ";")
  IN /\ Len(fields) = 5
     /\ \A f \in 1..5 :
          LET kv == Split(fields[f], "=")
          IN Len(kv) = 2 /\ kv[1] = FieldNames[f]
     /\ LET merkle == Split(fields[5], "=")[2]
        IN /\ Len(merkle) = 64
           /\ \A i \in 1..Len(merkle) : \E h \in 1..16 : merkle[i] = HexChars[h]

\* C17 as stated: for every puzzleNumber >= 1 the header built has the
\* fields version, prev, height, timestamp, merkle in this order, a merkle
\* field of exactly 64 hexadecimal characters, and the total length of
\* every other header (that of puzzle 1).
C17_HeaderLengthFixed ==
  blockHeader # <<>>
    => /\ FieldsAndMerkle(blockHeader)
       /\ Len(blockHeader) = Len(generateMockBlockHeader(1))

\* C17 amended: for every puzzleNumber >= 1 the header built has the
\* fields version, prev, height, timestamp, merkle in this order and a
\* merkle field of exactly 64 hexadecimal characters; its total length is
\* that of puzzle 1's header plus one character for each decimal digit
\* that puzzleNumber - 1, puzzleNumber and the timestamp have beyond those
\* of 0, 1 and puzzle 1's timestamp.
C17_HeaderShape ==
  blockHeader # <<>>
    => /\ FieldsAndMerkle(blockHeader)
       /\ Len(blockHeader) =
            Len(generateMockBlockHeader(1))
            + (Len(Decimal(puzzleNumber - 1)) - 1)
            + (Len(Decimal(puzzleNumber)) - 1)
            + (Len(timestampText(puzzleNumber)) - Len(timestampText(1)))

\* The header of a puzzle whose number and predecessor have three digits
\* has been built.
C17_Witness == blockHeader # <<>> /\ puzzleNumber = MaxHeight /\ puzzleNumber > 100

\* The chain of the running auto-guess effect stands at st.
LiveChainAt(lp, st) == \E c \in 1..Len(lp) : lp[c].live /\ lp[c].st = st

Running == mounted /\ autoGuessing /\ ~won

\* C18: while auto-guessing runs and the game is not won, an iteration of
\* the running chain that ends without a win, its digest failed or not,
\* leaves the chain on its timer; a running chain on its timer goes on to
\* its next iteration unless the loop is stopped, the game won, the
\* component unmounted or the guesses the model allows used up; and an
\* iteration that wins sets won and returns autoGuessing to false.
C18_LoopProgress ==
  /\ [][\A c \in 1..MaxLoops, n \in RandomNonces, ok \in BOOLEAN :
          (/\ AutoDigestDone(c, n, ok)
           /\ Running /\ loops[c].live
           /\ ~(ok /\ every(checkHash(calculateHash(blockHeader, n)))))
            => Running' /\ LiveChainAt(loops', "timer")]_vars
  /\ [][\A c \in 1..MaxLoops, n \in RandomNonces :
          (/\ AutoDigestDone(c, n, TRUE)
           /\ every(checkHash(calculateHash(blockHeader, n))))
            => won' /\ ~autoGuessing']_vars
  /\ (Running /\ LiveChainAt(loops, "timer"))
       ~> \/ Running /\ LiveChainAt(loops, "digest")
          \/ ~Running
          \/ ~Budget(store, loops, manual)

\* The running chain awaits a digest after an iteration whose digest
\* failed and one that recorded an attempt.
C18_Witness ==
  /\ Running /\ Len(loops) = 1 /\ LiveChainAt(loops, "digest")
  /\ error = ProcessingError /\ totalGuesses > 0 /\ manual = <<>>

\* C19: in every state, the states of a mount that restores a record
\* included, the ledger holds min(totalGuesses, LedgerCap) attempts.
C19_LedgerLengthIsCappedTotal == Len(attempts) = Min(totalGuesses, LedgerCap)

\* A game with more guesses than the ledger keeps has been restored by a
\* remount.
C19_Witness ==
  /\ Settled /\ snapshot # <<>> /\ snapshot[1] = puzzleNumber
  /\ totalGuesses > LedgerCap /\ Len(attempts) = LedgerCap

\* C20: once set, the error message stays set as long as the component
\* stays mounted: no guess, win, start, stop or load clears it.
C20_ErrorNeverCleared == [][(error # "" /\ mounted') => error' # ""]_vars

\* The validation error is still shown on a game won after it was set.
C20_Witness == mounted /\ error = ValidationError /\ won

====
